---- MODULE Spec2Model ----
(***************************************************************************)
(* Model of ImapFilterClient (src/src/imap_filter_client/                  *)
(* imap_filter_client.py): the watch loop of main(), the cursor file       *)
(* last_seen_uid.txt, the download queue and the filter_thread worker.     *)
(* The IMAP server is modelled by the mailbox (a set of UIDs), the UID     *)
(* counter and the answers it gives to the two searches the code issues.   *)
(***************************************************************************)
EXTENDS Integers, Sequences, FiniteSets, TLC

\* ---------------------------------------------------------------- bounds
MaxUid == 3        \* largest UID the server hands out in a run
InitUids == 2      \* most UIDs the server handed out before the process started
NumFilters == 2    \* number of filter classes found in filters/

\* ------------------------------------------------------ program constants
Unset == 0 - 1     \* self.last_seen_uid = -1 in __init__
Minus == 10        \* the character "-" in the text of the cursor file
Plus == 11         \* the character "+" in the text of the cursor file
BigCursor == 12    \* a cursor of more than one digit found in the file

VARIABLES
    \* the IMAP server
    mailbox,          \* UIDs of the messages in INBOX
    uidnext,          \* the UID the next arriving message gets
    \* the process
    last_seen_file,   \* last_seen_uid.txt: [exists, text]
    last_seen_uid,    \* self.last_seen_uid
    pc,               \* position of the main thread
    results,          \* local of main: the sorted search result
    pending,          \* the part of results[1:] the for loop has not put yet
    download_q,       \* download_q
    shutdown_event,   \* shutdown_event.is_set()
    primary,          \* state of the session opened by main
    response,         \* local of main: what idle_check returned in this turn
                      \* of the loop, "none" before the wait
    \* the worker thread
    wpc,              \* position of filter_thread
    uid,              \* local of filter_thread: the dequeued UID
    wsession,         \* state of the session opened by fetch_email
    fidx,             \* position of the for loop over self.filters
    last_fetch,       \* what client.fetch gave for uid: "ok" (email_message is
                      \* bound), "missing", "error"; "none" after a poll or wait
    \* history (observation only, never read by the actions' guards)
    calls,            \* filter calls made since the worker's last poll or wait
    fetched,          \* the UIDs the worker issued a fetch for, in order
    enqueued,         \* every UID put on the queue, in order
    \* (those of the cycle are cleared when main leaves the loop body)
    cycle_enq,        \* the UIDs put on the queue in the current cycle
    cycle_new,        \* UIDs above the cursor in the mailbox at the search
    search_from,      \* the cursor when the current cycle's search was issued
    persisted_before, \* the cursor file when the current search was issued
    changed,          \* the mailbox changed since the last search saw it,
                      \* with a search still to come
    rerun,            \* the current search saw the mailbox of the previous one
    start_mailbox,    \* the mailbox when the cursor was established
    start_cursor,     \* the cursor established at startup
    asked_highest     \* the startup issued the highest-UID query

envVars    == <<mailbox, uidnext>>
mainVars   == <<last_seen_file, last_seen_uid, pc, results, pending,
                download_q, shutdown_event, primary, response>>
workerVars == <<wpc, uid, wsession, fidx>>
histVars   == <<calls, last_fetch, fetched, enqueued, cycle_enq,
                cycle_new, search_from,
                persisted_before, changed, rerun, start_mailbox, start_cursor,
                asked_highest>>
cycleHist  == <<cycle_enq, cycle_new, search_from, persisted_before, changed,
                rerun>>
startHist  == <<start_mailbox, start_cursor, asked_highest>>
workHist   == <<calls, last_fetch, fetched>>
vars       == <<envVars, mainVars, workerVars, histVars>>

\* ---------------------------------------------------------------- helpers
Max(S) == CHOOSE x \in S : \A y \in S : y <= x

Last(s) == s[Len(s)]

Range(s) == {s[i] : i \in 1..Len(s)}

\* every order in which the server may list the set S
Orderings(S) ==
    {s \in [1..Cardinality(S) -> S] : \A i, j \in 1..Cardinality(S) : i # j => s[i] # s[j]}

\* str(n): the decimal text of an integer
RECURSIVE StrOf(_)
StrOf(n) ==
    IF n < 0 THEN <<Minus>> \o StrOf(0 - n)
    ELSE IF n < 10 THEN <<n>>
    ELSE StrOf(n \div 10) \o <<n % 10>>

\* int(text) succeeds
IsIntText(t) ==
    LET d == IF Len(t) > 0 /\ t[1] \in {Minus, Plus} THEN Tail(t) ELSE t
    IN Len(d) > 0 /\ \A i \in 1..Len(d) : d[i] \in 0..9

RECURSIVE DigitsValue(_)
DigitsValue(d) ==
    IF d = <<>> THEN 0 ELSE 10 * DigitsValue(SubSeq(d, 1, Len(d) - 1)) + Last(d)

\* int(f.readline().strip())
IntOf(t) ==
    IF t[1] = Minus THEN 0 - DigitsValue(Tail(t))
    ELSE IF t[1] = Plus THEN DigitsValue(Tail(t))
    ELSE DigitsValue(t)

\* the search results kept in the order in which they were returned
InsertFirst(x, s) == <<x>> \o s

\* sorted(...)
Insert(x, s) ==
    LET k == Cardinality({i \in 1..Len(s) : s[i] <= x})
    IN SubSeq(s, 1, k) \o <<x>> \o SubSeq(s, k + 1, Len(s))

RECURSIVE Sorted(_)
Sorted(s) == IF Len(s) = 0 THEN <<>> ELSE Insert(s[1], Sorted(SubSeq(s, 2, Len(s))))

\* client.search(["UID", "*"]): the message with the highest UID, if any
SearchHighest(mbox) == IF mbox = {} THEN {} ELSE {Max(mbox)}

\* client.search("UID <low>:*"): the range is inclusive, "*" is the highest
\* UID in the mailbox and the two ends of a range may come in either order
\* (RFC 3501, sequence sets), so the highest message is always part of the
\* answer, also when its UID is below <low>
UidSearch(mbox, low) ==
    IF mbox = {} THEN {} ELSE {u \in mbox : u >= low} \cup {Max(mbox)}

\* results[1:] as a mutant would write it: nothing is sliced off
SliceNone(s) == s

\* results[1:]
SliceFirst(s) == IF Len(s) = 0 THEN <<>> ELSE SubSeq(s, 2, Len(s))

\* the cursor as the "+1" variant of the loop would advance it
NewCursorNext(res) == Last(res) + 1

\* self.last_seen_uid = results[-1]
NewCursor(res) == Last(res)

\* the filter loop without its break
NextFilterNoBreak(k, processed) == IF k < NumFilters THEN k + 1 ELSE 0

\* the for loop over self.filters: the filter to call after filter k
\* returned processed; 0 when the loop is over
NextFilter(k, processed) ==
    IF processed THEN 0 ELSE IF k < NumFilters THEN k + 1 ELSE 0

\* the wait of the worker without its break
AfterWaitNoBreak(is_set) == "get"

\* if shutdown_event.wait(2.0): break -- where the worker goes after the wait
AfterWait(is_set) == IF is_set THEN "exited" ELSE "get"

\* a loop that takes an idle_check that timed out for a failure
AfterIdleCheckTimeoutFails(r) == IF r = "timeout" THEN "raised" ELSE "idle_done"

\* response = client.idle_check(60 * 5): main goes on to idle_done whatever
\* the response is (server activity or the empty answer of the timeout)
AfterIdleCheck(r) == "idle_done"

\* the except clause without its break: the while loop goes on
AfterInterruptNoBreak == "search"

\* except KeyboardInterrupt: ...; break -- main goes on after the loop
AfterInterrupt == "join"

\* fetcher_thread.join() returns once the thread has ended, by leaving its
\* loop or by an uncaught exception
JoinReturns(w) == w \in {"exited", "dead"}

\* what entry_point hands to main: get_last_checked_uid(client) keeps the
\* default catchup=False
MainCatchup == FALSE

InLoop == pc \in {"search", "put", "save_open", "save_write",
                  "idle", "idle_check", "idle_done"}

\* main is past the loop body: in the except clause, after the loop, in the
\* finally, or ended
PastLoop == pc \in {"except", "join", "logout", "done", "unwind", "raised"}

\* ------------------------------------------------------------------- Init
\* what last_seen_uid.txt may hold when the program starts: the text an
\* earlier run left (a cursor, also one the mailbox has not reached, or
\* nothing when a write was cut short after the truncation) or any other
\* text: a lone sign, the sentinel, zero, a cursor of two digits, and the
\* numerals str() never writes but int() reads (a leading zero, a signed
\* zero, a plus sign, another negative number)
StartTexts ==
    {<<>>, <<Minus>>, StrOf(Unset), StrOf(0), StrOf(BigCursor)}
        \cup {StrOf(n) : n \in 1..MaxUid}
        \cup {<<Minus, 0, 1>>, <<0, 2>>, <<Minus, 0>>, <<Minus, 2>>, <<Plus, 1>>}

Init ==
    /\ mailbox \in SUBSET (1..InitUids)
    /\ uidnext \in 1..(InitUids + 1)
    /\ \A u \in mailbox : u < uidnext
    /\ last_seen_file \in
         {[exists |-> FALSE, text |-> <<>>]} \cup
         {[exists |-> TRUE, text |-> t] : t \in StartTexts}
    /\ last_seen_uid = Unset
    /\ pc = "connect"
    /\ results = <<>>
    /\ pending = <<>>
    /\ download_q = <<>>
    /\ shutdown_event = FALSE
    /\ primary = "none"
    /\ response = "none"
    /\ wpc = "not_started"
    /\ uid = 0
    /\ wsession = "none"
    /\ fidx = 0
    /\ calls = <<>>
    /\ last_fetch = "none"
    /\ fetched = <<>>
    /\ enqueued = <<>>
    /\ cycle_enq = <<>>
    /\ cycle_new = {}
    /\ search_from = Unset
    /\ persisted_before = [exists |-> FALSE, text |-> <<>>]
    /\ changed = FALSE
    /\ rerun = FALSE
    /\ start_mailbox = {}
    /\ start_cursor = Unset
    /\ asked_highest = FALSE

\* ------------------------------------------------------------ the server
\* a message arrives and gets the next UID
Arrive ==
    /\ uidnext <= MaxUid
    /\ mailbox' = mailbox \cup {uidnext}
    /\ uidnext' = uidnext + 1
    /\ changed' = ~PastLoop
    /\ UNCHANGED <<mainVars, workerVars, workHist, enqueued, cycle_enq, cycle_new,
                   search_from, persisted_before, rerun, startHist>>

\* a message is deleted or moved away (by a filter or by another client)
Expunge ==
    /\ \E u \in mailbox : mailbox' = mailbox \ {u}
    /\ changed' = ~PastLoop
    /\ UNCHANGED <<uidnext, mainVars, workerVars, workHist, enqueued, cycle_enq,
                   cycle_new, search_from, persisted_before, rerun, startHist>>

\* ------------------------------------------------------- the main thread
\* main leaves the loop body: there is no current cycle any more and what
\* was recorded about the cycle is cleared
EndCycle ==
    /\ cycle_enq' = <<>>
    /\ cycle_new' = {}
    /\ search_from' = Unset
    /\ persisted_before' = [exists |-> FALSE, text |-> <<>>]
    /\ changed' = FALSE
    /\ rerun' = FALSE

\* an exception leaves the body of the with block of main: the finally of
\* establish_connection runs next
Raise ==
    /\ pc' = "unwind"
    /\ primary' = primary

\* main starts the thread and the loop without establishing the cursor
AfterConnectNoCursor == "start_thread"

\* main: the first statement under the with block is get_last_checked_uid
AfterConnect == "get_last_checked_uid"

\* with self.establish_connection() as client
EstablishConnection ==
    /\ pc = "connect"
    /\ pc' = AfterConnect
    /\ primary' = "selected"
    /\ UNCHANGED <<envVars, response, last_seen_file, last_seen_uid, results,
                   pending, download_q, shutdown_event, workerVars, histVars>>

\* get_last_checked_uid up to the point where the cursor file is opened
GetLastCheckedUid(catchup) ==
    /\ pc = "get_last_checked_uid"
    /\ IF catchup /\ last_seen_file.exists
       THEN /\ IF IsIntText(last_seen_file.text)
               THEN /\ last_seen_uid' = IntOf(last_seen_file.text)
                    /\ pc' = "assert"
                    /\ UNCHANGED primary
               ELSE /\ Raise
                    /\ UNCHANGED last_seen_uid
            /\ UNCHANGED <<asked_highest, changed>>
       ELSE /\ asked_highest' = TRUE
            /\ changed' = FALSE
            /\ IF SearchHighest(mailbox) = {}
               THEN /\ Raise
                    /\ UNCHANGED last_seen_uid
               ELSE /\ \E raw \in Orderings(SearchHighest(mailbox)) :
                          last_seen_uid' = raw[1]
                    /\ pc' = "glcu_open"
                    /\ UNCHANGED primary
    /\ start_mailbox' = mailbox
    /\ UNCHANGED <<envVars, response, last_seen_file, results, pending,
                   download_q, shutdown_event, workerVars, workHist, enqueued,
                   cycle_enq, cycle_new, search_from, persisted_before, rerun,
                   start_cursor>>

\* open(self.last_seen_filename, "w") in get_last_checked_uid
GlcuOpen ==
    /\ pc = "glcu_open"
    /\ last_seen_file' = [exists |-> TRUE, text |-> <<>>]
    /\ pc' = "glcu_write"
    /\ UNCHANGED <<envVars, response, last_seen_uid, results, pending,
                   download_q, shutdown_event, primary, workerVars, histVars>>

\* f.write(str(self.last_seen_uid)) and the close of the with block
GlcuWrite ==
    /\ pc = "glcu_write"
    /\ last_seen_file' = [exists |-> TRUE, text |-> StrOf(last_seen_uid)]
    /\ pc' = "assert"
    /\ UNCHANGED <<envVars, response, last_seen_uid, results, pending,
                   download_q, shutdown_event, primary, workerVars, histVars>>

\* assert self.last_seen_uid != -1
GlcuAssert ==
    /\ pc = "assert"
    /\ IF last_seen_uid # Unset
       THEN /\ pc' = "start_thread"
            /\ start_cursor' = last_seen_uid
            /\ UNCHANGED primary
       ELSE /\ Raise
            /\ UNCHANGED start_cursor
    /\ UNCHANGED <<envVars, response, last_seen_file, last_seen_uid, results,
                   pending, download_q, shutdown_event, workerVars, workHist,
                   enqueued, cycleHist, start_mailbox, asked_highest>>

\* fetcher_thread.start()
StartThread ==
    /\ pc = "start_thread"
    /\ pc' = "search"
    /\ wpc' = "get"
    /\ UNCHANGED <<envVars, response, last_seen_file, last_seen_uid, results,
                   pending, download_q, shutdown_event, primary, uid, wsession,
                   fidx, histVars>>

\* a search over the whole folder, whatever the cursor
SearchLowAll(cursor) == 1

\* the lower end of the range in f"UID {str(self.last_seen_uid)}:*"
SearchLow(cursor) == cursor

\* results = sorted(client.search(f"UID {last_seen_uid}:*"))
Search ==
    /\ pc = "search"
    /\ \E raw \in Orderings(UidSearch(mailbox, SearchLow(last_seen_uid))) :
          /\ results' = Sorted(raw)
          /\ pending' = SliceFirst(Sorted(raw))
    /\ pc' = "put"
    /\ cycle_enq' = <<>>
    /\ cycle_new' = {u \in mailbox : u > last_seen_uid}
    /\ search_from' = last_seen_uid
    /\ persisted_before' = last_seen_file
    /\ rerun' = ~changed
    /\ changed' = FALSE
    /\ UNCHANGED <<envVars, response, last_seen_file, last_seen_uid,
                   download_q, shutdown_event, primary, workerVars, workHist,
                   enqueued, startHist>>

\* download_q.put(uid), one turn of the for loop over results[1:]
Put ==
    /\ pc = "put"
    /\ pending # <<>>
    /\ download_q' = Append(download_q, Head(pending))
    /\ pending' = Tail(pending)
    /\ enqueued' = Append(enqueued, Head(pending))
    /\ cycle_enq' = Append(cycle_enq, Head(pending))
    /\ UNCHANGED <<envVars, response, last_seen_file, last_seen_uid, pc,
                   results, shutdown_event, primary, workerVars, workHist,
                   cycle_new, search_from, persisted_before, changed, rerun,
                   startHist>>

\* the loop enters idle mode without saving the cursor
AfterSetLastSeenNoSave == "idle"

\* after self.last_seen_uid = results[-1]: with open(..., "w") as f
AfterSetLastSeen == "save_open"

\* self.last_seen_uid = results[-1]
SetLastSeen ==
    /\ pc = "put"
    /\ pending = <<>>
    /\ IF results = <<>>
       THEN /\ Raise
            /\ EndCycle
            /\ UNCHANGED last_seen_uid
       ELSE /\ last_seen_uid' = NewCursor(results)
            /\ pc' = AfterSetLastSeen
            /\ UNCHANGED <<primary, cycleHist>>
    /\ UNCHANGED <<envVars, response, last_seen_file, results, pending,
                   download_q, shutdown_event, workerVars, workHist, enqueued,
                   startHist>>

\* open(self.last_seen_filename, "w") in the loop
SaveOpen ==
    /\ pc = "save_open"
    /\ last_seen_file' = [exists |-> TRUE, text |-> <<>>]
    /\ pc' = "save_write"
    /\ UNCHANGED <<envVars, response, last_seen_uid, results, pending,
                   download_q, shutdown_event, primary, workerVars, histVars>>

\* f.write(str(self.last_seen_uid)) and the close of the with block
SaveWrite ==
    /\ pc = "save_write"
    /\ last_seen_file' = [exists |-> TRUE, text |-> StrOf(last_seen_uid)]
    /\ pc' = "idle"
    /\ UNCHANGED <<envVars, response, last_seen_uid, results, pending,
                   download_q, shutdown_event, primary, workerVars, histVars>>

\* client.idle()
Idle ==
    /\ pc = "idle"
    /\ primary' = "idle"
    /\ pc' = "idle_check"
    /\ UNCHANGED <<envVars, response, last_seen_file, last_seen_uid, results,
                   pending, download_q, shutdown_event, workerVars, histVars>>

\* client.idle_check(60 * 5) returns, on server activity or on the timeout
IdleCheck ==
    /\ pc = "idle_check"
    /\ \E r \in {"activity", "timeout"} :
          /\ response' = r
          /\ pc' = AfterIdleCheck(r)
    /\ UNCHANGED <<envVars, last_seen_file, last_seen_uid, results,
                   pending, download_q, shutdown_event, primary, workerVars,
                   histVars>>

\* client.idle_done(); the response is not read after this point
IdleDone ==
    /\ pc = "idle_done"
    /\ primary' = "selected"
    /\ pc' = "search"
    /\ response' = "none"
    /\ UNCHANGED <<envVars, last_seen_file, last_seen_uid, results,
                   pending, download_q, shutdown_event, workerVars, histVars>>

\* except KeyboardInterrupt: the interrupt is caught in the loop body and the
\* handler starts (log.debug); the event is not set yet
KeyboardInterrupt ==
    /\ InLoop
    /\ pc' = "except"
    /\ EndCycle
    /\ UNCHANGED <<envVars, response, last_seen_file, last_seen_uid, results,
                   pending, download_q, shutdown_event, primary, workerVars,
                   workHist, enqueued, startHist>>

\* shutdown_event.set(); break
ShutdownSet ==
    /\ pc = "except"
    /\ shutdown_event' = TRUE
    /\ pc' = AfterInterrupt
    /\ UNCHANGED <<envVars, response, last_seen_file, last_seen_uid, results,
                   pending, download_q, primary, workerVars, histVars>>

\* a call on the primary session fails (connection or protocol error): the
\* search of get_last_checked_uid, or the search, idle, idle_check or
\* idle_done of the loop
PrimaryError ==
    /\ pc \in {"get_last_checked_uid", "search", "idle", "idle_check", "idle_done"}
    /\ Raise
    /\ EndCycle
    /\ UNCHANGED <<envVars, response, last_seen_file, last_seen_uid, results,
                   pending, download_q, shutdown_event, workerVars, workHist,
                   enqueued, startHist>>

\* establish_connection fails for the primary session, by an error or by an
\* interrupt: IMAPClient(host) raises and there is no session to log out, or
\* login, enable or select_folder raises and the finally logs the session
\* out, unless that logout is cut short too
ConnectError ==
    /\ pc = "connect"
    /\ pc' = "raised"
    /\ primary' \in {"none", "logged_out"}
    /\ UNCHANGED <<envVars, response, last_seen_file, last_seen_uid, results,
                   pending, download_q, shutdown_event, workerVars, histVars>>

\* open(self.last_seen_filename, "w") or the write to the file raises OSError;
\* a failed open leaves the file as it was, a failed write leaves it truncated
FileError ==
    /\ pc \in {"glcu_open", "glcu_write", "save_open", "save_write"}
    /\ Raise
    /\ EndCycle
    /\ UNCHANGED <<envVars, response, last_seen_file, last_seen_uid, results,
                   pending, download_q, shutdown_event, workerVars, workHist,
                   enqueued, startHist>>

\* KeyboardInterrupt outside the try block of the loop is not caught: during
\* start-up, inside the except clause before shutdown_event.set() and during
\* fetcher_thread.join() it leaves the body of the with block
UncaughtInterrupt ==
    /\ pc \in {"get_last_checked_uid", "glcu_open", "glcu_write", "assert",
               "start_thread", "except", "join"}
    /\ Raise
    /\ UNCHANGED <<envVars, response, last_seen_file, last_seen_uid, results,
                   pending, download_q, shutdown_event, workerVars, histVars>>

\* fetcher_thread.join() returns
Join ==
    /\ pc = "join"
    /\ JoinReturns(wpc)
    /\ pc' = "logout"
    /\ UNCHANGED <<envVars, response, last_seen_file, last_seen_uid, results,
                   pending, download_q, shutdown_event, primary, workerVars,
                   histVars>>

\* the finally of establish_connection: client.logout(), after the body of
\* the with block ended ("logout") or was left by an exception ("unwind").
\* The logout completes, or it raises or is cut short by an interrupt and
\* the session stays as it was. main returns only when the body had ended,
\* the logout completed and no interrupt arrived after it
Logout ==
    /\ pc \in {"logout", "unwind"}
    /\ \/ /\ primary' = "logged_out"
          /\ pc' \in (IF pc = "logout" THEN {"done", "raised"} ELSE {"raised"})
       \/ /\ primary' = primary
          /\ pc' = "raised"
    /\ UNCHANGED <<envVars, response, last_seen_file, last_seen_uid, results,
                   pending, download_q, shutdown_event, workerVars, histVars>>

\* ----------------------------------------------------- the worker thread
\* download_q.get_nowait(), or queue.Empty
GetNowait ==
    /\ wpc = "get"
    /\ IF download_q # <<>>
       THEN /\ uid' = Head(download_q)
            /\ download_q' = Tail(download_q)
            /\ wpc' = "connect"
       ELSE /\ wpc' = "wait"
            /\ UNCHANGED <<uid, download_q>>
    /\ calls' = <<>>
    /\ last_fetch' = "none"
    /\ UNCHANGED <<envVars, response, last_seen_file, last_seen_uid, pc,
                   results, pending, shutdown_event, primary, wsession, fidx,
                   fetched, enqueued, cycleHist, startHist>>

\* establish_connection keeps whatever state the session is in
CloseSessionLeak(s) == s

\* establish_connection, finally: if client: client.logout()
CloseSession(s) == "logged_out"

\* fetch_email: with self.establish_connection() as client
FetchConnect ==
    /\ wpc = "connect"
    /\ wsession' = "selected"
    /\ wpc' = "fetch"
    /\ UNCHANGED <<envVars, mainVars, uid, fidx, histVars>>

\* fetch_email: establish_connection fails for the worker's session:
\* IMAPClient(host) raises and no session exists, or login, enable or
\* select_folder raises and the finally logs the session out, unless that
\* logout fails too; the exception leaves filter_thread
FetchConnectError ==
    /\ wpc = "connect"
    /\ wsession' \in {wsession, "logged_out"}
    /\ wpc' = "dead"
    /\ last_fetch' = "error"
    /\ UNCHANGED <<envVars, mainVars, uid, fidx, calls, fetched,
                   enqueued, cycleHist, startHist>>

\* fetch_email: client.fetch([msg_id], ...) answers with the message, answers
\* with nothing, or raises; the finally of establish_connection runs next
FetchEmail ==
    /\ wpc = "fetch"
    /\ last_fetch' \in {IF uid \in mailbox THEN "ok" ELSE "missing", "error"}
    /\ wpc' = "fetch_logout"
    /\ fetched' = Append(fetched, uid)
    /\ UNCHANGED <<envVars, mainVars, uid, wsession, fidx, calls, enqueued,
                   cycleHist, startHist>>

\* fetch_email: the logout of the finally, then return email_message. The
\* worker goes on to the filters when the message was fetched and the logout
\* completed; the thread ends when the fetch had raised, when the name
\* email_message is unbound (the fetch returned nothing) or when the logout
\* raises, which leaves the session as it was
FetchLogout ==
    /\ wpc = "fetch_logout"
    /\ \/ /\ wsession' = CloseSession(wsession)
          /\ IF last_fetch = "ok"
             THEN /\ wpc' = "filter"
                  /\ fidx' = 1
             ELSE /\ wpc' = "dead"
                  /\ UNCHANGED fidx
       \/ /\ wsession' = wsession
          /\ wpc' = "dead"
          /\ UNCHANGED fidx
    /\ UNCHANGED <<envVars, mainVars, uid, calls, last_fetch, fetched,
                   enqueued, cycleHist, startHist>>

\* processed = filter_c.filter(msg); if processed: break
\* the filter returns true or false, or raises; the try of filter_thread
\* encloses the filter calls, so a filter that raises queue.Empty is taken
\* for an empty queue: the rest of the chain is skipped and the worker goes
\* to shutdown_event.wait
Filter ==
    /\ wpc = "filter"
    /\ \E r \in {"true", "false", "raise", "empty"} :
          /\ calls' = Append(calls, [f |-> fidx, r |-> r])
          /\ IF r = "raise"
             THEN /\ wpc' = "dead"
                  /\ UNCHANGED fidx
             ELSE IF r = "empty"
             THEN /\ wpc' = "wait"
                  /\ fidx' = 0
             ELSE /\ fidx' = NextFilter(fidx, r = "true")
                  /\ wpc' = IF NextFilter(fidx, r = "true") = 0 THEN "get" ELSE "filter"
    /\ UNCHANGED <<envVars, mainVars, uid, wsession, last_fetch, fetched, enqueued,
                   cycleHist, startHist>>

\* except queue.Empty: if shutdown_event.wait(2.0): break
ShutdownWait ==
    /\ wpc = "wait"
    /\ wpc' = AfterWait(shutdown_event)
    /\ calls' = <<>>
    /\ last_fetch' = "none"
    /\ UNCHANGED <<envVars, mainVars, uid, wsession, fidx, fetched, enqueued,
                   cycleHist, startHist>>

\* ------------------------------------------------------------------- Next
Next ==
    \/ Arrive
    \/ Expunge
    \/ EstablishConnection
    \/ GetLastCheckedUid(MainCatchup)
    \/ GlcuOpen
    \/ GlcuWrite
    \/ GlcuAssert
    \/ StartThread
    \/ Search
    \/ Put
    \/ SetLastSeen
    \/ SaveOpen
    \/ SaveWrite
    \/ Idle
    \/ IdleCheck
    \/ IdleDone
    \/ KeyboardInterrupt
    \/ ShutdownSet
    \/ PrimaryError
    \/ ConnectError
    \/ FileError
    \/ UncaughtInterrupt
    \/ Join
    \/ Logout
    \/ GetNowait
    \/ FetchConnect
    \/ FetchConnectError
    \/ FetchEmail
    \/ FetchLogout
    \/ Filter
    \/ ShutdownWait

Spec == Init /\ [][Next]_vars

\* ----------------------------------------------------------------- claims
AfterEnqueue == pc \in {"save_open", "save_write", "idle"}

Established == start_cursor # Unset

\* C1: a detection cycle never lowers the cursor: once the cycle has set the
\* cursor it is at least the cursor the search was issued with, and once the
\* cycle has written the file the persisted value is at least the value the
\* file held when the search was issued.
C1_CursorNeverDecreases ==
    /\ AfterEnqueue => last_seen_uid >= search_from
    /\ (pc = "idle" /\ IsIntText(persisted_before.text)) =>
           /\ IsIntText(last_seen_file.text)
           /\ IntOf(last_seen_file.text) >= IntOf(persisted_before.text)

\* C2: every UID put on the queue in a cycle is strictly greater than the
\* cursor held when that cycle's search was issued.
C2_EnqueuedAboveCursor ==
    \A i \in 1..Len(cycle_enq) : cycle_enq[i] > search_from

C2_Witness ==
    /\ pc = "put"
    /\ Len(cycle_enq) >= 2
    /\ pending = <<>>

\* C3: every UID the search returned that is strictly greater than the cursor
\* has been enqueued when the cycle's for loop is over, also when the message
\* whose UID equals the cursor is not in the result.
C3_OnlyCursorRemoved ==
    AfterEnqueue =>
        \A u \in Range(results) : u > search_from => u \in Range(cycle_enq)

\* C4: a cycle whose search sees the mailbox the previous search saw, with no
\* UID above the cursor, enqueues nothing and leaves the cursor and the cursor
\* file as they were.
C4_Idempotent ==
    (rerun /\ cycle_new = {} /\ pc \in {"put", "save_open", "save_write", "idle"}) =>
        /\ cycle_enq = <<>>
        /\ pending = <<>>
        /\ last_seen_uid = search_from
        /\ pc = "idle" => last_seen_file = persisted_before

C4_Witness ==
    /\ rerun
    /\ cycle_new = {}
    /\ pc = "idle"
    /\ enqueued # <<>>

\* C5: without catch-up the cursor starts at the highest UID of the mailbox
\* and is persisted, no message present at startup is ever enqueued, and a
\* cycle whose search finds UIDs above the cursor enqueues exactly those and
\* sets and persists the cursor to the largest of them.
C5_StartupThenOnlyNew ==
    /\ Established => start_cursor = Max(start_mailbox)
    /\ pc = "start_thread" =>
           last_seen_file = [exists |-> TRUE, text |-> StrOf(start_cursor)]
    /\ \A i \in 1..Len(enqueued) : enqueued[i] \notin start_mailbox
    /\ (pc = "idle" /\ cycle_new # {}) =>
           /\ Range(cycle_enq) = cycle_new
           /\ last_seen_uid = Max(cycle_new)
           /\ last_seen_file = [exists |-> TRUE, text |-> StrOf(Max(cycle_new))]

\* C6: started with catch-up requested and a cursor file present, the cursor
\* is set from the value in the file, the highest UID is not queried and the
\* file is not overwritten during startup; with catch-up requested and no
\* file, the highest UID is queried and persisted. The flag that entry_point
\* parses is handed neither to main nor to get_last_checked_uid, so a run of
\* main with catch-up requested is any run of main; the file of the claim is
\* one that holds a cursor.
C6_CatchupUsesPersisted ==
    /\ [][(pc = "get_last_checked_uid" /\ pc' \notin {pc, "unwind"}) =>
             IF last_seen_file.exists /\ IsIntText(last_seen_file.text)
             THEN /\ last_seen_uid' = IntOf(last_seen_file.text)
                  /\ ~asked_highest'
             ELSE asked_highest']_vars
    /\ [][(last_seen_file.exists /\ IsIntText(last_seen_file.text)
             /\ pc \in {"connect", "get_last_checked_uid", "glcu_open"}) =>
             last_seen_file' = last_seen_file]_vars
    /\ []((asked_highest /\ pc = "start_thread") =>
             last_seen_file = [exists |-> TRUE, text |-> StrOf(last_seen_uid)])

\* C7: every UID a search detected above the cursor that is at most the
\* persisted cursor (and above the startup cursor) has been put on the queue,
\* so a restart from the persisted cursor omits none.
C7_NoDetectedLost ==
    (InLoop /\ Established /\ last_seen_file.exists
        /\ IsIntText(last_seen_file.text)) =>
        \A u \in Range(results) :
            (u > search_from /\ u > start_cursor /\ u <= IntOf(last_seen_file.text)) =>
                u \in Range(enqueued)

\* C8: for every message the filters are called in registration order and no
\* filter is called after one returned true.
C8_ShortCircuit ==
    /\ Len(calls) <= NumFilters
    /\ \A i \in 1..Len(calls) :
          /\ calls[i].f = i
          /\ i < Len(calls) => calls[i].r = "false"

C8_Witness ==
    /\ Len(calls) >= 1
    /\ Len(calls) < NumFilters
    /\ Last(calls).r = "true"
    /\ wpc = "get"

\* C9: after a filter raised, the worker is alive and the next registered
\* filter, if any, is the next one called on the same message.
C9_FilterIsolation ==
    (calls # <<>> /\ Last(calls).r = "raise") =>
        /\ wpc # "dead"
        /\ Last(calls).f < NumFilters =>
               (wpc = "filter" /\ fidx = Last(calls).f + 1)

\* C10: after a fetch that returned nothing for the dequeued UID, no filter
\* has been called for it and the worker is alive to dequeue the next UID.
C10_MissingSkipped ==
    last_fetch = "missing" => (calls = <<>> /\ wpc # "dead")

\* C11: when the watch loop is left by an error other than the interrupt
\* while the worker runs, the shutdown event has been set for the worker (so
\* that it can exit and the process can end).
C11_ErrorSignalsShutdown ==
    (pc = "raised" /\ wpc # "not_started") => shutdown_event

\* C12: when the worker has left its loop, every UID that was put on the
\* queue has been taken off it and fetched.
C12_DrainedAtExit ==
    wpc = "exited" =>
        /\ download_q = <<>>
        /\ Range(enqueued) \subseteq Range(fetched)

\* C13 as claimed: once the shutdown event is set, nothing more is taken off
\* the queue and no fetch is issued.
C13_NoDequeueAfterSignal ==
    [][shutdown_event => (download_q' = download_q /\ fetched' = fetched)]_vars

\* C13 as amended: the worker tests the shutdown event only in the handler of
\* queue.Empty; once it is there and the event is set, it leaves its loop;
\* from then on nothing is taken off the queue and no fetch is issued, so
\* what is in the queue then is dropped.
C13_DroppedOnceEmptySeen ==
    [][(shutdown_event /\ wpc \in {"wait", "exited"}) =>
          /\ wpc' \in {wpc, "exited"}
          /\ download_q' = download_q
          /\ fetched' = fetched]_vars

C13_Witness ==
    /\ shutdown_event
    /\ wpc = "exited"
    /\ download_q # <<>>

\* C14: on an interrupt of the watch loop the steps come in this order:
\* nothing is put on the queue once the shutdown event is set, main waits in
\* join only after the event is set, and the primary session is logged out
\* only after the worker thread has ended and join has returned.
C14_ShutdownOrder ==
    /\ [][shutdown_event => enqueued' = enqueued]_vars
    /\ [](pc \in {"join", "logout", "done"} => shutdown_event)
    /\ []((shutdown_event /\ pc \in {"logout", "done"}) => wpc \in {"exited", "dead"})
    /\ []((shutdown_event /\ primary = "logged_out") => wpc \in {"exited", "dead"})

\* C15: an interrupt at any point of the loop body ends the loop: once the
\* shutdown event is set main is past the loop and no search is issued.
C15_NoSearchAfterInterrupt ==
    /\ [][pc = "except" => pc' \in {"except", "join", "unwind"}]_vars
    /\ [](shutdown_event => pc \in {"join", "logout", "done", "unwind", "raised"})
    /\ [][shutdown_event' => ~(pc = "search" /\ pc' = "put")]_vars

C15_Witness ==
    /\ shutdown_event
    /\ pc = "join"
    /\ primary = "idle"

\* C16: when idle_check returns on its timeout the loop goes on as after any
\* wake-up: the step is neither a failure nor the end of the loop, idle_done
\* takes the session out of idle mode and leaves the cursor alone, and the
\* next search is issued from that cursor.
C16_TimeoutSearchesAgain ==
    /\ [][(pc = "idle_check" /\ response # "timeout" /\ response' = "timeout") =>
             (pc' = "idle_done" /\ primary' = "idle" /\ ~shutdown_event')]_vars
    /\ [][(pc = "idle_done" /\ response = "timeout" /\ pc' = "search") =>
             (primary' = "selected" /\ last_seen_uid' = last_seen_uid)]_vars
    /\ [][(pc = "search" /\ pc' = "put") => search_from' = last_seen_uid]_vars

\* idle_check has returned on its timeout and the loop is about to leave idle
\* mode for the next search
C16_Witness ==
    /\ response = "timeout"
    /\ pc = "idle_done"
    /\ primary = "idle"
    /\ ~shutdown_event
    /\ last_seen_uid # Unset

\* C17: the cursor file is written only after a search (or the startup query
\* for the highest UID) has returned, and at every point at which the process
\* may stop the file holds the cursor it held before the write or the new
\* cursor, never an empty or partial text.
C17_AtomicCursorWrites ==
    /\ [][last_seen_file' # last_seen_file =>
             pc \in {"glcu_open", "glcu_write", "save_open", "save_write"}]_vars
    /\ [][last_seen_file' # last_seen_file => IsIntText(last_seen_file'.text)]_vars
    /\ []((InLoop /\ pc # "search" /\ IsIntText(last_seen_file.text)
             /\ IsIntText(persisted_before.text)) =>
             IntOf(last_seen_file.text) \in
                 {IntOf(persisted_before.text), last_seen_uid})

\* C18: the worker's session is opened for one fetch, when none is open, and
\* it is closed before the worker's next dequeue attempt, also when the fetch
\* failed: whenever the worker is at the queue, in the wait, connecting or in
\* the filters, no session of its own is open (a session is left open only
\* by a logout that raised, and that ends the thread); no step of the worker
\* changes the primary session.
C18_SessionPerFetch ==
    /\ [](wsession = "selected" => wpc \in {"fetch", "fetch_logout", "dead"})
    /\ [][(wsession # "selected" /\ wsession' = "selected") =>
             (wpc = "connect" /\ wpc' = "fetch")]_vars
    /\ [][(wpc \in {"fetch", "fetch_logout"}
             /\ wpc' \notin {"fetch", "fetch_logout", "dead"}) =>
             wsession' = "logged_out"]_vars
    /\ [][(wpc \notin {"not_started", wpc'} \/ uid' # uid \/ wsession' # wsession
             \/ fidx' # fidx) => primary' = primary]_vars

\* a fetch has ended, its session is closed and the worker is at the queue
\* for its next dequeue attempt, while the primary session is still in use
C18_Witness ==
    /\ fetched # <<>>
    /\ wsession = "logged_out"
    /\ wpc = "get"
    /\ primary \in {"selected", "idle"}

\* C19: the identifiers enqueued in one cycle are in strictly ascending order,
\* whatever order the search returned them in, and the worker fetches the
\* identifiers in the order in which they were enqueued.
C19_AscendingAndFifo ==
    /\ \A i \in 1..Len(cycle_enq) : \A j \in 1..Len(cycle_enq) :
          i < j => cycle_enq[i] < cycle_enq[j]
    /\ Len(fetched) <= Len(enqueued)
    /\ \A i \in 1..Len(fetched) : fetched[i] = enqueued[i]

\* two identifiers were enqueued in one cycle and both have been fetched
C19_Witness ==
    /\ Len(cycle_enq) >= 2
    /\ Len(fetched) >= 2

\* The worker thread and the join of the main thread are scheduled: a started
\* thread that can take a step takes it, every fetch and every filter call
\* returns or raises, and join returns once the thread has ended.
FairSpec ==
    /\ Spec
    /\ WF_vars(GetNowait)
    /\ WF_vars(FetchConnect)
    /\ WF_vars(FetchEmail)
    /\ WF_vars(FetchLogout)
    /\ WF_vars(Filter)
    /\ WF_vars(ShutdownWait)
    /\ WF_vars(Join)
    /\ WF_vars(Logout)

\* C20: once the shutdown event is set, the worker thread eventually ends,
\* having seen the event in the handler of queue.Empty unless it died before,
\* and the join of the main thread returns.
C20_WorkerExitsAndJoinReturns ==
    shutdown_event ~> (wpc \in {"exited", "dead"} /\ pc \in {"logout", "done"})

\* C21: in every state in which the worker thread has ended, the shutdown
\* event is set; while the main thread is still in its loop the worker is
\* alive.
C21_WorkerEndsOnlyOnShutdown ==
    /\ wpc \in {"exited", "dead"} => shutdown_event
    /\ InLoop => wpc \in {"get", "connect", "fetch", "fetch_logout", "filter",
                          "wait"}

\* C22: a search that returns no identifier, at startup or in a later cycle,
\* is not a failure: nothing is enqueued, the cursor and the cursor file stay
\* as they are and the loop goes on; the cursor changes only after a search
\* that found identifiers.
C22_EmptySearchKeepsCursor ==
    /\ [][(pc = "get_last_checked_uid" /\ asked_highest'
             /\ SearchHighest(mailbox) = {}) => pc' # "unwind"]_vars
    /\ [][(pc = "put" /\ results = <<>> /\ pc' # "except") =>
             /\ pc' # "unwind"
             /\ enqueued' = enqueued
             /\ last_seen_uid' = last_seen_uid
             /\ last_seen_file' = last_seen_file]_vars
    /\ [][(InLoop /\ last_seen_uid' # last_seen_uid) => results # <<>>]_vars

\* C23: the filters are called in registration order, each at most once per
\* message, and when the chain of a message ends without a filter having
\* returned true, every filter has been called and the worker is back at the
\* queue.
C23_NoMatchRunsAllFilters ==
    /\ [](\A i \in 1..Len(calls) : calls[i].f = i)
    /\ [][(wpc = "filter" /\ wpc' # "filter"
             /\ \A i \in 1..Len(calls') : calls'[i].r # "true") =>
             (wpc' = "get" /\ Len(calls') = NumFilters)]_vars

\* C24: while the primary session is in idle mode, from client.idle() to
\* client.idle_done(), the cursor file holds the text of the cursor in
\* memory.
C24_PersistedEqualsCursorInIdle ==
    pc \in {"idle", "idle_check", "idle_done"} =>
        /\ last_seen_file.exists
        /\ IsIntText(last_seen_file.text)
        /\ IntOf(last_seen_file.text) = last_seen_uid

\* the loop waits in idle_check after a cycle that moved the cursor
C24_Witness ==
    /\ pc = "idle_check"
    /\ primary = "idle"
    /\ last_seen_uid # start_cursor
    /\ last_seen_file = [exists |-> TRUE, text |-> StrOf(last_seen_uid)]

\* C25: the startup assertion never fails: main calls get_last_checked_uid
\* in the default mode (line 207), where the cursor is a UID the server
\* returned, so the cursor is not -1 once it is established and when the
\* assertion is reached; the thread is started only with the cursor set, and
\* no search is issued from -1.
C25_CursorEstablished ==
    /\ pc \notin {"connect", "get_last_checked_uid", "unwind", "raised"} =>
          last_seen_uid # Unset
    /\ wpc # "not_started" => (start_cursor # Unset /\ last_seen_uid # Unset)
    /\ pc = "put" => search_from # Unset

\* the cursor was established from the server's answer, the thread runs and
\* the first search from that cursor has returned
C25_Witness ==
    /\ asked_highest
    /\ wpc = "get"
    /\ pc = "put"
    /\ search_from = start_cursor
    /\ start_cursor # Unset
    /\ enqueued = <<>>

\* C26: the identifiers put on the queue during one run, over all cycles,
\* form a strictly increasing sequence, so none is enqueued twice.
C26_EnqueuedStrictlyIncreasing ==
    \A i \in 1..Len(enqueued) : \A j \in 1..Len(enqueued) :
        i < j => enqueued[i] < enqueued[j]

\* two identifiers were enqueued in two different cycles, and the folder has
\* changed again since the last search
C26_Witness ==
    /\ Len(enqueued) >= 2
    /\ Len(cycle_enq) = 1
    /\ pc = "idle_check"
    /\ changed

\* C27: a search is issued on the primary session only while it is not in
\* idle mode, and the session leaves idle mode only through idle_done: it is
\* never logged out while in idle mode, also when the wait is interrupted.
C27_IdleProtocol ==
    /\ [][(pc = "search" /\ pc' = "put") => primary = "selected"]_vars
    /\ [][primary = "idle" => primary' \in {"idle", "selected"}]_vars

====
